---- MODULE Spec2Model ----
(***************************************************************************)
(* A model of src/process.py (drdavella/dsca): the reduction of a summary  *)
(* file of indentation measurements into a valid/outlier partition and one *)
(* representative point.                                                   *)
(*                                                                         *)
(* Python floats are modelled as a small binary floating-point format with *)
(* the rounding rules of IEEE 754 (round to nearest, ties to even, gradual *)
(* underflow, overflow to infinity, NaN): a finite value is an integer     *)
(* number of units of 2^-FracBits that has at most Precision significant   *)
(* bits.  Python's own float is the same format with Precision = 53.       *)
(***************************************************************************)
EXTENDS Integers, Sequences, FiniteSets, TLC

(***************************************************************************)
(* Bounds of the model.                                                    *)
(***************************************************************************)
FracBits == 3
Precision == 4
MaxExp == 8
MaxLines == 4
MaxRecs == 3
MaxFiles == 2
MaxSamples == 2

(***************************************************************************)
(* Floats.                                                                 *)
(***************************************************************************)
Unit == 2 ^ FracBits
MaxMant == 2 ^ Precision
MaxFinite == (MaxMant - 1) * (2 ^ MaxExp)

Fin(v) == [k |-> "fin", v |-> v]
NaN == [k |-> "nan", v |-> 0]
Inf(s) == [k |-> "inf", v |-> s]
IsFin(a) == a.k = "fin"
IsNaN(a) == a.k = "nan"
IsInf(a) == a.k = "inf"
IsZero(a) == a.k = "fin" /\ a.v = 0
Sign(a) == IF a.v < 0 THEN -1 ELSE IF a.v > 0 THEN 1 ELSE 0
AbsInt(n) == IF n < 0 THEN -n ELSE n

\* The binade of a non-negative rational num/den: the least j >= 0 with
\* num/den < 2^Precision * 2^j.
RECURSIVE Binade(_, _, _)
Binade(num, den, j) ==
    IF num < MaxMant * (2 ^ j) * den THEN j ELSE Binade(num, den, j + 1)

\* num/den >= 0 rounded to the nearest integer, ties to even.
HalfEven(num, den) ==
    LET f == num \div den
        r == num % den
    IN  IF 2 * r < den THEN f
        ELSE IF 2 * r > den THEN f + 1
        ELSE IF f % 2 = 0 THEN f ELSE f + 1

\* The float nearest to the rational num/den (den > 0), in units.
RoundQ(num, den) ==
    LET s == IF num < 0 THEN -1 ELSE 1
        n == AbsInt(num)
        j == Binade(n, den, 0)
        m == HalfEven(n, den * (2 ^ j)) * (2 ^ j)
    IN  IF m > MaxFinite THEN Inf(s) ELSE Fin(s * m)

FNeg(a) == IF IsNaN(a) THEN NaN ELSE [a EXCEPT !.v = -a.v]
FAbs(a) == IF IsNaN(a) THEN NaN ELSE [a EXCEPT !.v = AbsInt(a.v)]

FAdd(a, b) ==
    IF IsNaN(a) \/ IsNaN(b) THEN NaN
    ELSE IF IsInf(a) /\ IsInf(b) THEN (IF a.v = b.v THEN a ELSE NaN)
    ELSE IF IsInf(a) THEN a
    ELSE IF IsInf(b) THEN b
    ELSE RoundQ(a.v + b.v, 1)

FSub(a, b) == FAdd(a, FNeg(b))

FMul(a, b) ==
    IF IsNaN(a) \/ IsNaN(b) THEN NaN
    ELSE IF IsInf(a) \/ IsInf(b)
         THEN (IF Sign(a) * Sign(b) = 0 THEN NaN ELSE Inf(Sign(a) * Sign(b)))
    ELSE RoundQ(a.v * b.v, Unit)

\* a / b for b # 0 (Python raises ZeroDivisionError before dividing by zero).
FDiv(a, b) ==
    IF IsNaN(a) \/ IsNaN(b) THEN NaN
    ELSE IF IsInf(a) THEN (IF IsInf(b) THEN NaN ELSE Inf(Sign(a) * Sign(b)))
    ELSE IF IsInf(b) THEN Fin(0)
    ELSE RoundQ(Sign(b) * a.v * Unit, AbsInt(b.v))

RECURSIVE ISqrt(_)
ISqrt(n) ==
    IF n < 2 THEN n
    ELSE LET s == 2 * ISqrt(n \div 4)
         IN  IF (s + 1) * (s + 1) <= n THEN s + 1 ELSE s

\* math.sqrt of a >= 0: the float nearest to the square root.
FSqrt(a) ==
    IF ~IsFin(a) THEN a
    ELSE LET n == a.v * Unit
             s == ISqrt(n)
             j == Binade(s, 1, 0)
             p == 2 ^ j
             lo == (s \div p) * p
             \* twice the midpoint of lo and lo + p
             mid2 == 2 * lo + p
             up == IF 4 * n > mid2 * mid2 THEN TRUE
                   ELSE IF 4 * n < mid2 * mid2 THEN FALSE
                   ELSE (lo \div p) % 2 = 1
         IN  RoundQ(IF up THEN lo + p ELSE lo, 1)

\* a >= b and a < b; every comparison with NaN is false.
FOrd(a) == IF IsInf(a) THEN a.v * (MaxFinite + 1) ELSE a.v
FGe(a, b) == ~IsNaN(a) /\ ~IsNaN(b) /\ FOrd(a) >= FOrd(b)
FLt(a, b) == ~IsNaN(a) /\ ~IsNaN(b) /\ FOrd(a) < FOrd(b)

\* An int converted to float.
FromInt(n) == RoundQ(n * Unit, 1)

(***************************************************************************)
(* Text.  A line of a file is its whitespace-separated tokens, whether     *)
(* whitespace surrounds them (pad), and its line terminator (eol): "LF",   *)
(* "CRLF", "CR", or "NONE" for text without a terminator.                  *)
(***************************************************************************)
Line(pad, toks, eol) == [pad |-> pad, toks |-> toks, eol |-> eol]

\* line == '' or line == '\n', line == "\x0d\x0a" or line == "\x0d"
IsEmptyLine(line) == ~line.pad /\ line.toks = <<>> /\ line.eol \in {"NONE", "LF"}
IsWindowsEmptyLine(line) == ~line.pad /\ line.toks = <<>> /\ line.eol \in {"CRLF", "CR"}

\* line.split() and line.strip()
Split(line) == line.toks
Strip(line) == Line(FALSE, line.toks, "NONE")

\* text + '\n', for text without a terminator
WithNewline(text) == Line(text.pad, text.toks, "LF")

\* The numerals of the model and the numbers they denote.
Numerals == {"0", "1", "2", "3", "6", "14"}
NumeralValue(tok) ==
    CASE tok = "0" -> 0 [] tok = "1" -> 1 [] tok = "2" -> 2
      [] tok = "3" -> 3 [] tok = "6" -> 6 [] tok = "14" -> 14

\* float(tok): the float, or ValueError (ok = FALSE).  float() accepts the
\* literals "nan" and "inf".
PyFloat(tok) ==
    IF tok \in Numerals THEN [ok |-> TRUE, val |-> RoundQ(NumeralValue(tok) * Unit, 1)]
    ELSE IF tok = "nan" THEN [ok |-> TRUE, val |-> NaN]
    ELSE IF tok = "inf" THEN [ok |-> TRUE, val |-> Inf(1)]
    ELSE IF tok = "-inf" THEN [ok |-> TRUE, val |-> Inf(-1)]
    ELSE [ok |-> FALSE, val |-> NaN]

(***************************************************************************)
(* DataLine and DataSample.  id stands for the identity of the Python      *)
(* object: the index of the line of the file it was built from.            *)
(***************************************************************************)
DataLine(id, fname, depth, stiff, hard, line) ==
    [id |-> id, fname |-> fname, depth |-> depth, stiff |-> stiff,
     hard |-> hard, line |-> line]

DataSample(time, depth, load) == [time |-> time, depth |-> depth, load |-> load]

NoText == Line(FALSE, <<>>, "NONE")
Unbound == [bound |-> FALSE, text |-> NoText]
Bound(text) == [bound |-> TRUE, text |-> text]

(***************************************************************************)
(* read_summary_file.  st is "ok", or the exception that ends the call.    *)
(***************************************************************************)
\* The body of the try block for one data line: "append", "skip" (ValueError)
\* or "IndexError".
ParseDataLine(fields) ==
    IF Len(fields) < 2 THEN "IndexError"
    ELSE IF Len(fields) < 8 THEN "IndexError"
    ELSE IF ~PyFloat(fields[8]).ok THEN "skip"
    ELSE IF Len(fields) < 10 THEN "IndexError"
    ELSE IF ~PyFloat(fields[10]).ok THEN "skip"
    ELSE IF Len(fields) < 11 THEN "IndexError"
    ELSE IF ~PyFloat(fields[11]).ok THEN "skip"
    ELSE "append"

SampleFileName(fields) == fields[1] \o " " \o fields[2] \o " LC.txt"

\* The loop over the lines from the i-th on (i counts from 1, Python's
\* enumerate index is i - 1).
RECURSIVE SummaryLoop(_, _, _, _)
SummaryLoop(lines, i, header, data) ==
    IF i > Len(lines) THEN [st |-> "ok", header |-> header, data |-> data]
    ELSE LET line == lines[i]
             fields == Split(line)
         IN  IF i - 1 = 0 THEN SummaryLoop(lines, i + 1, header, data)
             ELSE IF i - 1 = 2
                  THEN SummaryLoop(lines, i + 1, Bound(Strip(line)), data)
             ELSE IF IsEmptyLine(line) THEN SummaryLoop(lines, i + 1, header, data)
             ELSE IF IsWindowsEmptyLine(line)
                  THEN SummaryLoop(lines, i + 1, header, data)
             ELSE IF Len(fields) = 0 THEN SummaryLoop(lines, i + 1, header, data)
             ELSE IF ParseDataLine(fields) = "IndexError"
                  THEN [st |-> "IndexError", header |-> header, data |-> data]
             ELSE IF ParseDataLine(fields) = "skip"
                  THEN SummaryLoop(lines, i + 1, header, data)
             ELSE SummaryLoop(lines, i + 1, header,
                      Append(data, DataLine(i - 1, SampleFileName(fields),
                                            PyFloat(fields[8]).val,
                                            PyFloat(fields[10]).val,
                                            PyFloat(fields[11]).val,
                                            Strip(line))))

\* read_summary_file with the header bound to '' before the loop: a file
\* without a line 2 gives an empty header.
read_summary_file_EmptyHeader(files, filename) ==
    IF filename \notin DOMAIN files
    THEN [st |-> "SystemExit", header |-> Unbound, data |-> <<>>]
    ELSE SummaryLoop(files[filename], 1, Bound(NoText), <<>>)

read_summary_file(files, filename) ==
    IF filename \notin DOMAIN files
    THEN [st |-> "SystemExit", header |-> Unbound, data |-> <<>>]
    ELSE LET r == SummaryLoop(files[filename], 1, Unbound, <<>>)
         IN  IF r.st = "ok" /\ ~r.header.bound
             THEN [r EXCEPT !.st = "UnboundLocalError"]
             ELSE r

(***************************************************************************)
(* read_datapoint_file.                                                    *)
(***************************************************************************)
ParseSampleLine(fields) ==
    IF Len(fields) < 1 THEN "IndexError"
    ELSE IF ~PyFloat(fields[1]).ok THEN "skip"
    ELSE IF Len(fields) < 2 THEN "IndexError"
    ELSE IF ~PyFloat(fields[2]).ok THEN "skip"
    ELSE IF Len(fields) < 3 THEN "IndexError"
    ELSE IF ~PyFloat(fields[3]).ok THEN "skip"
    ELSE "append"

RECURSIVE SampleLoop(_, _, _)
SampleLoop(lines, i, samples) ==
    IF i > Len(lines) THEN [st |-> "ok", samples |-> samples]
    ELSE LET line == lines[i]
             fields == Split(line)
         IN  IF i - 1 < 4 THEN SampleLoop(lines, i + 1, samples)
             ELSE IF IsEmptyLine(line) THEN SampleLoop(lines, i + 1, samples)
             ELSE IF IsWindowsEmptyLine(line) THEN SampleLoop(lines, i + 1, samples)
             ELSE IF ParseSampleLine(fields) = "IndexError"
                  THEN [st |-> "IndexError", samples |-> samples]
             ELSE IF ParseSampleLine(fields) = "skip"
                  THEN SampleLoop(lines, i + 1, samples)
             ELSE SampleLoop(lines, i + 1,
                      Append(samples, DataSample(PyFloat(fields[3]).val,
                                                 PyFloat(fields[1]).val,
                                                 PyFloat(fields[2]).val)))

read_datapoint_file(files, filename) ==
    IF filename \notin DOMAIN files
    THEN [st |-> "SystemExit", samples |-> <<>>]
    ELSE SampleLoop(files[filename], 1, <<>>)

(***************************************************************************)
(* write_summary_file: the file written at path.                           *)
(***************************************************************************)
RECURSIVE PointLines(_)
PointLines(points) ==
    IF points = <<>> THEN <<>>
    ELSE <<WithNewline(Head(points).line)>> \o PointLines(Tail(points))

\* write_summary_file with one '\n' after the count for the two of line 140:
\* the header becomes the second line of the file.
write_summary_file_NoBlank(files, path, points, header) ==
    LET count == Line(FALSE, <<"Number", "of", "Data", "Points", "=",
                               ToString(Len(points))>>, "LF")
        text == <<count, WithNewline(header)>> \o PointLines(points)
    IN  [p \in DOMAIN files \cup {path} |-> IF p = path THEN text ELSE files[p]]

write_summary_file(files, path, points, header) ==
    LET count == Line(FALSE, <<"Number", "of", "Data", "Points", "=",
                               ToString(Len(points))>>, "LF")
        blank == Line(FALSE, <<>>, "LF")
        text == <<count, blank, WithNewline(header)>> \o PointLines(points)
    IN  [p \in DOMAIN files \cup {path} |-> IF p = path THEN text ELSE files[p]]

(***************************************************************************)
(* calculate_stats.                                                        *)
(***************************************************************************)
\* sum(samples): the additions from left to right, starting from the int 0.
RECURSIVE FSum(_, _)
FSum(samples, acc) ==
    IF samples = <<>> THEN acc
    ELSE FSum(Tail(samples), FAdd(acc, Head(samples)))

\* x ** 2 raises OverflowError when a finite x has a square out of range.
Pow2Overflows(x) == IsFin(x) /\ IsInf(FMul(x, x))

\* calculate_stats with the divisions guarded the way numpy's mean and std
\* are: too few values give NaN, not an exception.
calculate_stats_NaN(samples, samplevar) ==
    LET n == Len(samples)
        size == IF samplevar THEN n - 1 ELSE n
    IN  IF n = 0 THEN [st |-> "ok", mean |-> NaN, sdev |-> NaN]
        ELSE LET mean == FDiv(FSum(samples, Fin(0)), FromInt(n))
                 devs == [j \in 1..n |-> FSub(samples[j], mean)]
                 squares == [j \in 1..n |-> FMul(devs[j], devs[j])]
             IN  [st |-> "ok", mean |-> mean,
                  sdev |-> IF size = 0 THEN NaN
                           ELSE FSqrt(FDiv(FSum(squares, Fin(0)), FromInt(size)))]

calculate_stats(samples, samplevar) ==
    LET n == Len(samples)
        failed(e) == [st |-> e, mean |-> NaN, sdev |-> NaN]
    IN  IF n = 0 THEN failed("ZeroDivisionError")
        ELSE LET mean == FDiv(FSum(samples, Fin(0)), FromInt(n))
                 devs == [j \in 1..n |-> FSub(samples[j], mean)]
                 squares == [j \in 1..n |-> FMul(devs[j], devs[j])]
                 size == IF samplevar THEN n - 1 ELSE n
             IN  IF \E j \in 1..n : Pow2Overflows(devs[j])
                 THEN failed("OverflowError")
                 ELSE IF size = 0 THEN failed("ZeroDivisionError")
                 ELSE [st |-> "ok", mean |-> mean,
                       sdev |-> FSqrt(FDiv(FSum(squares, Fin(0)), FromInt(size)))]

(***************************************************************************)
(* Paths.  A path is a directory and a base name; the base name is kept as *)
(* its whitespace-separated tokens.  The file system maps the text of a    *)
(* path to the lines of the file there.                                    *)
(***************************************************************************)
Path(dir, base) == [dir |-> dir, base |-> base]

RECURSIVE JoinSpace(_)
JoinSpace(toks) ==
    IF Len(toks) = 0 THEN ""
    ELSE IF Len(toks) = 1 THEN toks[1]
    ELSE toks[1] \o " " \o JoinSpace(Tail(toks))

PathStr(path) == path.dir \o "/" \o JoinSpace(path.base)

(***************************************************************************)
(* The threshold of main (lines 376-392).                                  *)
(***************************************************************************)
DEFAULT_Z_THRESH == 3

None == [some |-> FALSE, val |-> NaN]
Some(x) == [some |-> TRUE, val |-> x]

\* The truth value Python gives an optional float: None and 0.0 are false.
Truthy(opt) == opt.some /\ ~IsZero(opt.val)

\* scipy.stats.norm.ppf(q), to the nearest quarter below: the inverse of the
\* normal distribution function, which is 0 at 1/2 and infinite at 1.
NormPpf(q) ==
    IF IsNaN(q) THEN NaN
    ELSE IF FGe(q, FromInt(1)) THEN (IF q = FromInt(1) THEN Inf(1) ELSE NaN)
    ELSE IF FGe(Fin(0), q) THEN (IF IsZero(q) THEN Inf(-1) ELSE NaN)
    ELSE LET m == (q.v * 1000) \div Unit
             quarters == CASE m < 500 -> -1
                           [] m >= 500 /\ m < 599 -> 0
                           [] m >= 599 /\ m < 692 -> 1
                           [] m >= 692 /\ m < 774 -> 2
                           [] m >= 774 /\ m < 842 -> 3
                           [] m >= 842 /\ m < 934 -> 4
                           [] m >= 934 /\ m < 978 -> 6
                           [] m >= 978 -> 8
         IN  RoundQ(quarters * Unit, 4)

\* Lines 376-392: the usage errors and the threshold.
Threshold(a) ==
    IF Truthy(a.pval) /\ Truthy(a.sdev) THEN [st |-> "SystemExit", z |-> NaN]
    ELSE IF Truthy(a.sdev)
         THEN (IF FLt(a.sdev.val, Fin(0))
               THEN [st |-> "SystemExit", z |-> NaN]
               ELSE [st |-> "ok", z |-> a.sdev.val])
    ELSE IF Truthy(a.pval)
         THEN (IF FLt(a.pval.val, Fin(0)) \/ FLt(FromInt(1), a.pval.val)
               THEN [st |-> "SystemExit", z |-> NaN]
               ELSE LET tails == FSub(FromInt(1), a.pval.val)
                    IN  [st |-> "ok",
                         z |-> NormPpf(FAdd(a.pval.val, FDiv(tails, FromInt(2))))])
    ELSE [st |-> "ok", z |-> FromInt(DEFAULT_Z_THRESH)]

\* read_list_file: the stripped text of every line that is not empty.
RECURSIVE ListLoop(_)
ListLoop(entries) ==
    IF entries = <<>> THEN <<>>
    ELSE IF Head(entries).blank THEN ListLoop(Tail(entries))
    ELSE <<Head(entries).path>> \o ListLoop(Tail(entries))

read_list_file(lists, name) ==
    IF name \notin DOMAIN lists THEN [st |-> "SystemExit", files |-> <<>>]
    ELSE [st |-> "ok", files |-> ListLoop(lists[name])]

\* Lines 394-402: the summary files of the run.
SummaryFiles(a, lists) ==
    IF a.filelist = "" /\ a.summary_files = <<>>
    THEN [st |-> "SystemExit", files |-> <<>>]
    ELSE IF a.filelist # "" /\ a.summary_files # <<>>
    THEN [st |-> "NameError", files |-> <<>>]
    ELSE IF a.summary_files # <<>> THEN [st |-> "ok", files |-> a.summary_files]
    ELSE read_list_file(lists, a.filelist)

(***************************************************************************)
(* The steps of process_file.                                              *)
(***************************************************************************)
NoStats ==
    [depth_mean |-> NaN, depth_sdev |-> NaN, stiff_mean |-> NaN,
     stiff_sdev |-> NaN, hard_mean |-> NaN, hard_sdev |-> NaN]

Depths(points) == [j \in 1..Len(points) |-> points[j].depth]
Stiffs(points) == [j \in 1..Len(points) |-> points[j].stiff]
Hards(points) == [j \in 1..Len(points) |-> points[j].hard]

\* Lines 225-227: the three calls, the first failure ends them.
FileStats(points) ==
    LET d == calculate_stats(Depths(points), TRUE)
        s == calculate_stats(Stiffs(points), TRUE)
        h == calculate_stats(Hards(points), TRUE)
    IN  IF d.st # "ok" THEN [st |-> d.st, stats |-> NoStats]
        ELSE IF s.st # "ok" THEN [st |-> s.st, stats |-> NoStats]
        ELSE IF h.st # "ok" THEN [st |-> h.st, stats |-> NoStats]
        ELSE [st |-> "ok",
              stats |-> [depth_mean |-> d.mean, depth_sdev |-> d.sdev,
                         stiff_mean |-> s.mean, stiff_sdev |-> s.sdev,
                         hard_mean |-> h.mean, hard_sdev |-> h.sdev]]

\* Lines 239-241.
Score(x, mean, sdev) == FDiv(FSub(x, mean), sdev)

\* Rejected with > for >=: a score equal to the threshold passes.
Rejected_Strict(x, s, z) ==
    \/ FLt(z, FAbs(Score(x.depth, s.depth_mean, s.depth_sdev)))
    \/ FLt(z, FAbs(Score(x.stiff, s.stiff_mean, s.stiff_sdev)))
    \/ FLt(z, FAbs(Score(x.hard, s.hard_mean, s.hard_sdev)))

\* Lines 243-251: the three tests of one point.
Rejected(x, s, z) ==
    \/ FGe(FAbs(Score(x.depth, s.depth_mean, s.depth_sdev)), z)
    \/ FGe(FAbs(Score(x.stiff, s.stiff_mean, s.stiff_sdev)), z)
    \/ FGe(FAbs(Score(x.hard, s.hard_mean, s.hard_sdev)), z)

\* Lines 229-252: the loop over the points from the j-th on.
RECURSIVE ClassifyLoop(_, _, _, _, _, _)
ClassifyLoop(points, j, s, z, valid, out) ==
    IF j > Len(points) THEN [st |-> "ok", valid |-> valid, outliers |-> out]
    ELSE IF IsZero(s.depth_sdev) \/ IsZero(s.stiff_sdev) \/ IsZero(s.hard_sdev)
         THEN [st |-> "ZeroDivisionError", valid |-> valid, outliers |-> out]
    ELSE IF Rejected(points[j], s, z)
         THEN ClassifyLoop(points, j + 1, s, z, valid, Append(out, points[j]))
    ELSE ClassifyLoop(points, j + 1, s, z, Append(valid, points[j]), out)

\* The loop without the continue of line 245: a point rejected for its depth
\* goes on to the other two tests.
RECURSIVE ClassifyLoop_NoContinue(_, _, _, _, _, _)
ClassifyLoop_NoContinue(points, j, s, z, valid, out) ==
    IF j > Len(points) THEN [st |-> "ok", valid |-> valid, outliers |-> out]
    ELSE IF IsZero(s.depth_sdev) \/ IsZero(s.stiff_sdev) \/ IsZero(s.hard_sdev)
         THEN [st |-> "ZeroDivisionError", valid |-> valid, outliers |-> out]
    ELSE LET x == points[j]
             byDepth == FGe(FAbs(Score(x.depth, s.depth_mean, s.depth_sdev)), z)
             byRest ==
                 \/ FGe(FAbs(Score(x.stiff, s.stiff_mean, s.stiff_sdev)), z)
                 \/ FGe(FAbs(Score(x.hard, s.hard_mean, s.hard_sdev)), z)
             out1 == IF byDepth THEN Append(out, x) ELSE out
         IN  IF byRest
             THEN ClassifyLoop_NoContinue(points, j + 1, s, z, valid, Append(out1, x))
             ELSE ClassifyLoop_NoContinue(points, j + 1, s, z, Append(valid, x), out1)

Classify_NoContinue(points, s, z) ==
    ClassifyLoop_NoContinue(points, 1, s, z, <<>>, <<>>)

Classify(points, s, z) == ClassifyLoop(points, 1, s, z, <<>>, <<>>)

\* Lines 256-264: the names of the two files written.
DataName(path) == path.base[1]
CleanName(path) == path.dir \o "/" \o DataName(path) \o "_clean.txt"
OutlierName(path) == path.dir \o "/" \o DataName(path) \o "_outliers.txt"

\* Lines 254-266 with the two lists exchanged: the clean file gets the
\* outliers.
WriteOut_Swapped(files, path, valid, out, hdr) ==
    write_summary_file(write_summary_file(files, CleanName(path), out, hdr),
                       OutlierName(path), valid, hdr)

\* Lines 254-266.
WriteOut(files, path, valid, out, hdr) ==
    write_summary_file(write_summary_file(files, CleanName(path), valid, hdr),
                       OutlierName(path), out, hdr)

NoPoint == DataLine(0, "", NaN, NaN, NaN, NoText)
NoBest == [some |-> FALSE, point |-> NoPoint, score |-> Inf(1)]

\* Line 276.
Similarity(p, s) == FAbs(FSub(p.stiff, s.stiff_mean))

\* Line 277 with <= for <: the last of several nearest points wins.
Better_OrEqual(score, best_score) == FGe(best_score, score)

\* Line 277.
Better(score, best_score) == FLt(score, best_score)

\* Lines 269-279: the loop over the valid points from the j-th on.
RECURSIVE SelectLoop(_, _, _, _)
SelectLoop(valid, j, s, best) ==
    IF j > Len(valid) THEN best
    ELSE IF Better(Similarity(valid[j], s), best.score)
         THEN SelectLoop(valid, j + 1, s,
                  [some |-> TRUE, point |-> valid[j],
                   score |-> Similarity(valid[j], s)])
    ELSE SelectLoop(valid, j + 1, s, best)

SelectBest(valid, s) == SelectLoop(valid, 1, s, NoBest)

(***************************************************************************)
(* The state.                                                              *)
(***************************************************************************)
VARIABLES
    entry,          \* the function the run calls: "main", "process_file" or "calculate_stats"
    args,           \* the parsed command line of main
    lists,          \* the list files: name -> entries
    fs,             \* the summary, sample and written files: path -> lines
    pc,             \* the step the run is at
    err,            \* the exception that ended the run, and the step it ended
    zthresh,        \* main's zthresh, process_file's parameter
    summary_files,  \* main's summary_files
    fi,             \* main's loop: the file being processed (from 1)
    points,         \* main's points
    samples,        \* main's samples
    filename,       \* process_file's parameters
    datadir,
    write_out,
    header,         \* process_file's locals
    data,
    stats,
    valid_points,
    outliers,
    best,
    best_samples,
    cs              \* a call of calculate_stats: its arguments and its result

vars == <<entry, args, lists, fs, pc, err, zthresh, summary_files, fi, points,
          samples, filename, datadir, write_out, header, data, stats,
          valid_points, outliers, best, best_samples, cs>>

mainVars == <<zthresh, summary_files, fi, points, samples>>
callVars == <<filename, datadir, write_out>>
localVars == <<header, data, stats, valid_points, outliers, best, best_samples>>
inputVars == <<entry, args, lists, cs>>

NoErr == [kind |-> "", at |-> ""]
NoPath == Path("", <<>>)
NoArgs == [sdev |-> None, pval |-> None, summary_files |-> <<>>, filelist |-> ""]
NoCall == [samples |-> <<>>, samplevar |-> TRUE,
           result |-> [st |-> "", mean |-> NaN, sdev |-> NaN]]

(***************************************************************************)
(* The inputs of the model.                                                *)
(***************************************************************************)
CountLine(n) ==
    Line(FALSE, <<"Number", "of", "Data", "Points", "=", ToString(n)>>, "LF")
BlankLine == Line(FALSE, <<>>, "LF")
HeaderLine ==
    Line(FALSE, <<"Test", "Pos", "X", "Y", "Z", "Drift", "Area", "hc(nm)",
                  "Pmax", "Er(GPa)", "H(GPa)">>, "CRLF")
PaddedHeaderLine == [HeaderLine EXCEPT !.pad = TRUE]

\* A data line: eleven tokens, the sample file's two name tokens first, the
\* depth, the stiffness and the hardness at indices 7, 9 and 10.
PointLine(name, num, d, s, h) ==
    Line(FALSE, <<name, num, "0", "0", "0", "0", "0", d, "0", s, h>>, "LF")

\* A data line cut to its first n tokens.
ShortLine(line, n) == [line EXCEPT !.toks = SubSeq(line.toks, 1, n)]

\* A sample file: four lines of preamble, then the samples.
SampleText ==
    <<CountLine(2), BlankLine, HeaderLine, BlankLine,
      Line(FALSE, <<"1", "2", "0">>, "LF"), Line(FALSE, <<"2", "3", "1">>, "LF")>>

PointNames == {"1", "2", "3", "4", "5", "6"}
SampleFiles(dir) == [p \in {dir \o "/P " \o n \o " LC.txt" : n \in PointNames} |-> SampleText]

\* Files f and g together; g's where both have one.
Merge(f, g) == [p \in DOMAIN f \cup DOMAIN g |-> IF p \in DOMAIN g THEN g[p] ELSE f[p]]
OneFile(path, text) == [p \in {PathStr(path)} |-> text]
NoFiles == [p \in {} |-> <<>>]

\* The data lines of the points whose values are the triples of vals.
RECURSIVE PointLines2(_, _)
PointLines2(vals, j) ==
    IF j > Len(vals) THEN <<>>
    ELSE <<PointLine("P", ToString(j), vals[j][1], vals[j][2], vals[j][3])>>
         \o PointLines2(vals, j + 1)

SummaryText(vals) ==
    <<CountLine(Len(vals)), BlankLine, HeaderLine>> \o PointLines2(vals, 1)

\* The depth, stiffness and hardness tokens of the points of the model.
Triples ==
    {<<"1", "1", "1">>, <<"1", "2", "2">>, <<"1", "3", "1">>, <<"1", "2", "1">>,
     <<"14", "1", "2">>, <<"14", "2", "1">>, <<"14", "3", "2">>, <<"14", "3", "1">>}

\* The lines a summary file of the model may hold at each index: beside data
\* lines, empty lines, lines of whitespace, lines cut short, lines with a
\* token that is no number, and lines with nan and inf.
NoiseLines ==
    {BlankLine,
     Line(FALSE, <<>>, "CRLF"),
     Line(TRUE, <<>>, "LF"),
     ShortLine(PointLine("P", "1", "1", "1", "1"), 1),
     ShortLine(PointLine("P", "1", "1", "1", "1"), 10),
     ShortLine(PointLine("P", "1", "x", "1", "1"), 8),
     PointLine("P", "1", "1", "x", "1"),
     PointLine("P", "1", "nan", "1", "inf"),
     PointLine("P", "6", "1", "nan", "1")}
GoodLines == {PointLine("P", "2", "1", "1", "2"), [PointLine("P", "3", "14", "3", "1") EXCEPT !.pad = TRUE]}
LinesAt(i) ==
    IF i = 0 THEN {CountLine(2), PointLine("P", "4", "1", "2", "1")}
    ELSE IF i = 2 THEN {HeaderLine, PaddedHeaderLine, PointLine("P", "5", "1", "2", "1")}
    ELSE NoiseLines \cup GoodLines

RECURSIVE Texts(_)
Texts(n) ==
    IF n = 0 THEN {<<>>}
    ELSE {Append(t, l) : t \in Texts(n - 1), l \in LinesAt(n - 1)}

Thresholds == {Fin(0), FromInt(1), FromInt(3)}
RunPath == Path("d", <<"run", "A.txt">>)

\* The files of the runs of main.
PathA == RunPath
PathB == Path("d", <<"run", "B.txt">>)
PathOne == Path("d", <<"one.txt">>)
PathFar == Path("e", <<"far.txt">>)
PathGone == Path("d", <<"gone.txt">>)
BatchPaths == {PathA, PathB, PathOne, PathFar, PathGone}
BatchFiles ==
    Merge(SampleFiles("d"),
    Merge(OneFile(PathA, SummaryText(<<<<"1", "1", "1">>, <<"14", "2", "2">>,
                                       <<"1", "3", "1">>>>)),
    Merge(OneFile(PathB, SummaryText(<<<<"14", "3", "2">>, <<"1", "1", "1">>>>)),
    Merge(OneFile(PathOne, SummaryText(<<<<"1", "1", "1">>>>)),
          OneFile(PathFar, SummaryText(<<<<"1", "1", "1">>, <<"14", "2", "2">>>>))))))
BatchLists ==
    [n \in {"list.txt"} |->
        <<[blank |-> FALSE, path |-> PathB], [blank |-> TRUE, path |-> NoPath],
          [blank |-> FALSE, path |-> PathA]>>]

SdevArgs == {None, Some(Fin(0)), Some(FromInt(1)), Some(FromInt(-1)), Some(NaN)}
PvalArgs == {None, Some(Fin(0)), Some(RoundQ(Unit, 2)), Some(FromInt(1)), Some(FromInt(2))}
UnitValues == {FromInt(1), FromInt(2), FromInt(14), FromInt(60), NaN}

\* The lines a sample file of the model may hold after its fourth: sample
\* lines, empty lines, lines of whitespace, lines cut short and lines with a
\* token that is no number.
SampleLines ==
    {Line(FALSE, <<"1", "2", "0">>, "LF"),
     Line(TRUE, <<"2", "3", "1">>, "CRLF"),
     Line(FALSE, <<"1", "2", "3", "6">>, "LF"),
     BlankLine,
     Line(FALSE, <<>>, "CRLF"),
     Line(TRUE, <<>>, "LF"),
     Line(FALSE, <<"1", "2">>, "LF"),
     Line(FALSE, <<"x">>, "LF"),
     Line(FALSE, <<"x", "2", "0">>, "LF"),
     Line(FALSE, <<"1", "2", "x">>, "LF")}

\* The first four lines of a sample file: text, or lines that read as samples.
Preambles ==
    {<<CountLine(2), BlankLine, HeaderLine, BlankLine>>,
     [j \in 1..4 |-> Line(FALSE, <<"3", "3", "3">>, "LF")]}

\* The sample files of the model: a preamble or the beginning of one, and up
\* to MaxSamples lines after a whole preamble.
SampleTexts ==
    {SubSeq(pre, 1, k) : pre \in Preambles, k \in 0..3}
        \cup {pre \o t : pre \in Preambles,
                          t \in UNION {[1..n -> SampleLines] : n \in 0..MaxSamples}}

(***************************************************************************)
(* The initial states: a call of process_file, of main or of               *)
(* calculate_stats, on the inputs above.                                   *)
(***************************************************************************)
Start(e, a, l, f, p, z, path, dir, w, c) ==
    /\ entry = e
    /\ args = a
    /\ lists = l
    /\ fs = f
    /\ pc = p
    /\ err = NoErr
    /\ zthresh = z
    /\ summary_files = <<>>
    /\ fi = 1
    /\ points = <<>>
    /\ samples = <<>>
    /\ filename = path
    /\ datadir = dir
    /\ write_out = w
    /\ header = NoText
    /\ data = <<>>
    /\ stats = NoStats
    /\ valid_points = <<>>
    /\ outliers = <<>>
    /\ best = NoBest
    /\ best_samples = <<>>
    /\ cs = c

StartProcess(f, z, dir, w) ==
    Start("process_file", NoArgs, NoFiles, f, "read", z, RunPath, dir, w, NoCall)

StartMain(a) ==
    Start("main", a, BatchLists, BatchFiles, "main", NaN, NoPath, "", TRUE, NoCall)

\* process_file on a well-formed summary file of up to MaxRecs points.
InitPoints ==
    \E n \in 0..MaxRecs : \E vals \in [1..n -> Triples] : \E z \in Thresholds :
        StartProcess(Merge(SampleFiles("d"), OneFile(RunPath, SummaryText(vals))),
                     z, "d", TRUE)

\* process_file without writing, or with the sample files elsewhere.
InitOptions ==
    \E n \in 0..2 : \E vals \in [1..n -> Triples] : \E z \in Thresholds :
    \E w \in BOOLEAN : \E dir \in {"d", "e"} :
        /\ ~(w /\ dir = "d")
        /\ StartProcess(Merge(SampleFiles("d"), OneFile(RunPath, SummaryText(vals))),
                        z, dir, w)

\* process_file on a summary file of up to MaxLines lines of any kind, or on
\* a file that does not exist.
InitLines ==
    \/ \E n \in 0..MaxLines : \E t \in Texts(n) :
           StartProcess(Merge(SampleFiles("d"), OneFile(RunPath, t)),
                        FromInt(1), "d", TRUE)
    \/ StartProcess(SampleFiles("d"), FromInt(1), "d", TRUE)

\* process_file on two points, the sample file of the first of them any
\* sample file of the model.
InitSamples ==
    \E t \in SampleTexts :
        StartProcess(Merge(SampleFiles("d"),
                     Merge(OneFile(RunPath, SummaryText(<<<<"1", "1", "1">>,
                                                          <<"14", "3", "2">>>>)),
                           [p \in {"d/P 1 LC.txt"} |-> t])),
                     FromInt(3), "d", TRUE)

\* main on every command line of the model.
InitArgs ==
    \E sd \in SdevArgs : \E pv \in PvalArgs :
    \E sf \in {<<>>, <<PathA>>} : \E fl \in {"", "list.txt", "nolist.txt"} :
        StartMain([sdev |-> sd, pval |-> pv, summary_files |-> sf, filelist |-> fl])

\* main on a batch of up to MaxFiles summary files.
InitBatch ==
    \E n \in 1..MaxFiles : \E sf \in [1..n -> BatchPaths] :
        StartMain([sdev |-> None, pval |-> None, summary_files |-> sf, filelist |-> ""])

\* calculate_stats on up to MaxRecs values, in either mode.
InitStats ==
    \E n \in 0..MaxRecs : \E xs \in [1..n -> UnitValues] : \E sv \in BOOLEAN :
        Start("calculate_stats", NoArgs, NoFiles, NoFiles, "call", NaN, NoPath, "",
              TRUE, [NoCall EXCEPT !.samples = xs, !.samplevar = sv])

Init ==
    \/ InitPoints
    \/ InitOptions
    \/ InitLines
    \/ InitSamples
    \/ InitArgs
    \/ InitBatch
    \/ InitStats

(***************************************************************************)
(* The steps.                                                              *)
(***************************************************************************)
Fail(kind) ==
    /\ pc' = "failed"
    /\ err' = [kind |-> kind, at |-> pc]

\* main, lines 365-404: the command line.
Main_Args ==
    /\ pc = "main"
    /\ LET t == Threshold(args)
           f == SummaryFiles(args, lists)
       IN  IF t.st # "ok"
           THEN Fail(t.st) /\ UNCHANGED mainVars
           ELSE IF f.st # "ok"
           THEN Fail(f.st) /\ zthresh' = t.z
                /\ UNCHANGED <<summary_files, fi, points, samples>>
           ELSE /\ zthresh' = t.z
                /\ summary_files' = f.files
                /\ pc' = "loop"
                /\ UNCHANGED <<err, fi, points, samples>>
    /\ UNCHANGED <<inputVars, fs, callVars, localVars>>

\* main, lines 406-410: the next file of the loop, and the call of
\* process_file on it.
Main_Loop ==
    /\ pc = "loop"
    /\ IF fi <= Len(summary_files)
       THEN /\ filename' = summary_files[fi]
            /\ datadir' = summary_files[fi].dir
            /\ write_out' = TRUE
            /\ header' = NoText
            /\ data' = <<>>
            /\ stats' = NoStats
            /\ valid_points' = <<>>
            /\ outliers' = <<>>
            /\ best' = NoBest
            /\ best_samples' = <<>>
            /\ pc' = "read"
       ELSE /\ pc' = "graph"
            /\ UNCHANGED <<callVars, localVars>>
    /\ UNCHANGED <<inputVars, fs, err, mainVars>>

\* process_file, line 223.
PF_Read ==
    /\ pc = "read"
    /\ LET r == read_summary_file(fs, PathStr(filename))
       IN  IF r.st # "ok"
           THEN Fail(r.st) /\ UNCHANGED <<header, data>>
           ELSE /\ header' = r.header.text
                /\ data' = r.data
                /\ pc' = "stats"
                /\ err' = err
    /\ UNCHANGED <<inputVars, fs, mainVars, callVars, stats, valid_points,
                   outliers, best, best_samples>>

\* process_file, lines 225-227.
PF_Stats ==
    /\ pc = "stats"
    /\ LET r == FileStats(data)
       IN  IF r.st # "ok"
           THEN Fail(r.st) /\ UNCHANGED stats
           ELSE /\ stats' = r.stats
                /\ pc' = "classify"
                /\ err' = err
    /\ UNCHANGED <<inputVars, fs, mainVars, callVars, header, data, valid_points,
                   outliers, best, best_samples>>

\* process_file, lines 229-252.
PF_Classify ==
    /\ pc = "classify"
    /\ LET r == Classify(data, stats, zthresh)
       IN  IF r.st # "ok"
           THEN Fail(r.st) /\ UNCHANGED <<valid_points, outliers>>
           ELSE /\ valid_points' = r.valid
                /\ outliers' = r.outliers
                /\ pc' = "write"
                /\ err' = err
    /\ UNCHANGED <<inputVars, fs, mainVars, callVars, header, data, stats, best,
                   best_samples>>

\* Lines 254-266 left out: the selection follows the classification at once.
PF_Write_Nothing ==
    /\ pc = "write"
    /\ pc' = "select"
    /\ UNCHANGED <<inputVars, fs, err, mainVars, callVars, localVars>>

\* process_file, lines 254-266.
PF_Write ==
    /\ pc = "write"
    /\ fs' = IF write_out
             THEN WriteOut(fs, filename, valid_points, outliers, header)
             ELSE fs
    /\ pc' = "select"
    /\ UNCHANGED <<inputVars, err, mainVars, callVars, localVars>>

\* process_file, lines 268-280.
PF_Select ==
    /\ pc = "select"
    /\ best' = SelectBest(valid_points, stats)
    /\ IF best'.some
       THEN pc' = "load" /\ err' = err
       ELSE Fail("AttributeError")
    /\ UNCHANGED <<inputVars, fs, mainVars, callVars, header, data, stats,
                   valid_points, outliers, best_samples>>

\* process_file, lines 280-282.
PF_Load ==
    /\ pc = "load"
    /\ LET r == read_datapoint_file(fs, datadir \o "/" \o best.point.fname)
       IN  IF r.st # "ok"
           THEN Fail(r.st) /\ UNCHANGED best_samples
           ELSE /\ best_samples' = r.samples
                /\ pc' = "return"
                /\ err' = err
    /\ UNCHANGED <<inputVars, fs, mainVars, callVars, header, data, stats,
                   valid_points, outliers, best>>

\* Lines 410-412 with the pair put in front of those collected before.
Main_Collect_Prepend ==
    /\ pc = "return"
    /\ entry = "main"
    /\ points' = <<best.point>> \o points
    /\ samples' = <<best_samples>> \o samples
    /\ fi' = fi + 1
    /\ pc' = "loop"
    /\ UNCHANGED <<inputVars, fs, err, zthresh, summary_files, callVars, localVars>>

\* main, lines 410-412: the pair process_file returned is collected.
Main_Collect ==
    /\ pc = "return"
    /\ entry = "main"
    /\ points' = Append(points, best.point)
    /\ samples' = Append(samples, best_samples)
    /\ fi' = fi + 1
    /\ pc' = "loop"
    /\ UNCHANGED <<inputVars, fs, err, zthresh, summary_files, callVars, localVars>>

\* main, lines 414-429: the collected points go to the plots.
Main_Graph ==
    /\ pc = "graph"
    /\ pc' = "done"
    /\ UNCHANGED <<inputVars, fs, err, mainVars, callVars, localVars>>

\* A call of calculate_stats.
CS_Call ==
    /\ pc = "call"
    /\ cs' = [cs EXCEPT !.result = calculate_stats(cs.samples, cs.samplevar)]
    /\ IF cs'.result.st = "ok"
       THEN pc' = "result" /\ err' = err
       ELSE Fail(cs'.result.st)
    /\ UNCHANGED <<entry, args, lists, fs, mainVars, callVars, localVars>>

Next ==
    \/ Main_Args
    \/ Main_Loop
    \/ PF_Read
    \/ PF_Stats
    \/ PF_Classify
    \/ PF_Write
    \/ PF_Select
    \/ PF_Load
    \/ Main_Collect
    \/ Main_Graph
    \/ CS_Call

Spec == Init /\ [][Next]_vars

(***************************************************************************)
(* Properties.                                                             *)
(***************************************************************************)
\* The classification of the current file is complete.
Classified ==
    \/ pc \in {"write", "select", "load", "return"}
    \/ pc = "failed" /\ err.at \in {"select", "load"}

\* The representative of the current file is selected.
Selected ==
    \/ pc \in {"load", "return"}
    \/ pc = "failed" /\ err.at = "load"

Ids(seq) == {seq[j].id : j \in 1..Len(seq)}
Elems(seq) == {seq[j] : j \in 1..Len(seq)}
PosIn(seq, x) == CHOOSE j \in 1..Len(seq) : seq[j] = x
\* sub holds elements of seq, each at most once, in the order they have in seq.
OrderedWithin(sub, seq) ==
    /\ \A j \in 1..Len(sub) : sub[j] \in Elems(seq)
    /\ \A j, k \in 1..Len(sub) : j < k => PosIn(seq, sub[j]) < PosIn(seq, sub[k])

\* C1: once process_file has classified the parsed records, the valid list
\* and the outlier list are disjoint, every parsed record is in exactly one of
\* them exactly once, and each list keeps the order of the parsed records.
C1_Partition ==
    Classified =>
        /\ Elems(valid_points) \cap Elems(outliers) = {}
        /\ Elems(valid_points) \cup Elems(outliers) = Elems(data)
        /\ Len(valid_points) + Len(outliers) = Len(data)
        /\ OrderedWithin(valid_points, data)
        /\ OrderedWithin(outliers, data)

\* C1's case: three parsed records, classified into a valid record between
\* two outliers or an outlier between two valid records.
C1_Witness ==
    /\ Classified
    /\ Len(data) = 3
    /\ \/ Len(valid_points) = 2 /\ outliers = <<data[2]>>
       \/ Len(outliers) = 2 /\ valid_points = <<data[2]>>

\* The absolute Z-score of value x against a mean and a standard deviation.
AbsZ(x, st) == FAbs(FDiv(FSub(x, st.mean), st.sdev))

MeanStiff == calculate_stats(Stiffs(data), TRUE).mean
Distance(x) == FAbs(FSub(x.stiff, MeanStiff))

\* C3: the representative process_file selects is a valid record whose
\* distance from the mean stiffness of all parsed records no valid record
\* undercuts, every valid record before it is strictly farther, and its
\* distance is 0 when some valid record's stiffness is that mean.
C3_RepresentativeIsFirstNearest ==
    Selected =>
        /\ best.some
        /\ best.point \in Elems(valid_points)
        /\ \A x \in Elems(valid_points) : ~FLt(Distance(x), Distance(best.point))
        /\ \A j \in 1..Len(valid_points) :
              j < PosIn(valid_points, best.point)
                  => FLt(Distance(best.point), Distance(valid_points[j]))
        /\ (\E x \in Elems(valid_points) : x.stiff = MeanStiff)
              => IsZero(Distance(best.point))

\* C3's cases: beside an outlier, two valid records tie for the least
\* distance and the first is selected; or the second valid record is at the
\* mean and is selected.
C3_Witness ==
    /\ Selected
    /\ Len(valid_points) >= 2
    /\ \/ /\ outliers # <<>>
          /\ best.point = valid_points[1]
          /\ Distance(valid_points[2]) = Distance(valid_points[1])
       \/ /\ best.point = valid_points[2]
          /\ IsZero(Distance(best.point))

\* C4: when no parsed record is valid, the selection of the representative
\* fails with EmptyInputError.
C4_EmptyValidIsEmptyInputError ==
    (valid_points = <<>> /\ (Selected \/ (pc = "failed" /\ err.at = "select")))
        => (pc = "failed" /\ err = [kind |-> "EmptyInputError", at |-> "select"])

\* The step after the statistics of the current file is reached.
PastStats ==
    \/ pc \in {"classify", "write", "select", "load", "return"}
    \/ pc = "failed" /\ err.at \in {"classify", "select", "load"}

TooFew(xs, sv) == Len(xs) < (IF sv THEN 2 ELSE 1)

\* C5: calculate_stats on fewer than two values in sample mode, or on none in
\* population mode, fails and returns no (mean, standard deviation); and
\* process_file gets past its statistics only with two parsed records or more.
C5_TooFewValuesFail ==
    /\ (entry = "calculate_stats" /\ pc # "call" /\ TooFew(cs.samples, cs.samplevar))
          => (pc = "failed" /\ err.at = "call" /\ cs.result.st # "ok")
    /\ PastStats => Len(data) >= 2
    /\ (pc = "failed" /\ err.at = "stats")
          => (valid_points = <<>> /\ outliers = <<>>)

\* C5's cases: calculate_stats has failed on one value in sample mode, on no
\* value in population mode; process_file has failed on one parsed record.
C5_Witness ==
    \/ /\ entry = "calculate_stats" /\ pc = "failed"
       /\ Len(cs.samples) = 1 /\ cs.samplevar /\ IsFin(cs.samples[1])
    \/ /\ entry = "calculate_stats" /\ pc = "failed"
       /\ Len(cs.samples) = 0 /\ ~cs.samplevar
    \/ /\ entry = "process_file" /\ pc = "failed" /\ err.at = "stats"
       /\ Len(data) = 1

AllFinite(xs) == \A j \in 1..Len(xs) : IsFin(xs[j])
Constant(xs) == \A j \in 1..Len(xs) : xs[j] = xs[1]

\* C6: when two or more parsed records, all finite, share one value of depth,
\* of stiffness or of hardness, process_file fails with no record classified.
C6_ConstantFieldFails ==
    (/\ Len(data) >= 2
     /\ \A xs \in {Depths(data), Stiffs(data), Hards(data)} : AllFinite(xs)
     /\ \E xs \in {Depths(data), Stiffs(data), Hards(data)} : Constant(xs)
     /\ pc \notin {"read", "stats", "classify"})
        => (/\ pc = "failed"
            /\ err.at \in {"stats", "classify"}
            /\ valid_points = <<>>
            /\ outliers = <<>>)

\* C7: a command line with both a Z-score threshold and a p-value is refused
\* as a usage error before any summary file is processed.
C7_BothThresholdsRefused ==
    (entry = "main" /\ args.sdev.some /\ args.pval.some /\ pc # "main")
        => (pc = "failed" /\ err = [kind |-> "SystemExit", at |-> "main"])

\* C8: with only a Z value z >= 0 on the command line the threshold is z, and
\* with neither a Z value nor a p-value it is the default.
C8_ExplicitThresholdUsed ==
    (entry = "main" /\ pc = "loop") =>
        /\ (args.sdev.some /\ ~args.pval.some /\ FGe(args.sdev.val, Fin(0)))
              => zthresh = args.sdev.val
        /\ (~args.sdev.some /\ ~args.pval.some)
              => zthresh = FromInt(DEFAULT_Z_THRESH)

\* The summary file of the current call exists and has three lines or more.
HasHeader ==
    /\ PathStr(filename) \in DOMAIN fs
    /\ Len(fs[PathStr(filename)]) >= 3
    /\ pc # "read"

\* A line of eleven tokens or more whose tokens 7, 9 and 10 float() accepts.
WellFormed(line) ==
    /\ Len(line.toks) >= 11
    /\ \A j \in {8, 10, 11} : PyFloat(line.toks[j]).ok

\* The indices of the lines of the current summary file that are data.
DataIndices ==
    {i \in 0..(Len(fs[PathStr(filename)]) - 1) :
        i \notin {0, 2} /\ WellFormed(fs[PathStr(filename)][i + 1])}

\* C9: read_summary_file skips every line with non-numeric or too few tokens
\* and returns the records of all the well-formed lines.
C9_BadLinesSkipped ==
    HasHeader =>
        /\ ~(pc = "failed" /\ err.at = "read")
        /\ Ids(data) = DataIndices

\* Two lines hold the same text, whatever their terminators.
SameText(a, b) == a.toks = b.toks /\ a.pad = b.pad

\* C10: on a file of three lines or more read_summary_file makes no record of
\* line 0 or line 2, returns the text of line 2 unchanged as the header, and
\* returns one record per well-formed line at any other index, in the order
\* of the file.
C10_HeaderAndRecordsInFileOrder ==
    HasHeader =>
        /\ ~(pc = "failed" /\ err.at = "read")
        /\ SameText(header, fs[PathStr(filename)][3])
        /\ Ids(data) \cap {0, 2} = {}
        /\ Len(data) = Cardinality(DataIndices)
        /\ \A j \in 1..Len(data) : data[j].id \in DataIndices
        /\ \A j, k \in 1..Len(data) : j < k => data[j].id < data[k].id

\* The output files of the current file are written.
Written ==
    /\ write_out
    /\ \/ pc \in {"select", "load", "return"}
       \/ pc = "failed" /\ err.at \in {"select", "load"}

\* Two records with the same file name, numeric fields and verbatim line.
SameRecord(a, b) ==
    /\ a.fname = b.fname
    /\ a.depth = b.depth
    /\ a.stiff = b.stiff
    /\ a.hard = b.hard
    /\ a.line = b.line

\* read_summary_file on the file at path returns the header hdr and records
\* equal, one by one and in order, to those of pts.
ReadsBack(path, hdr, pts) ==
    LET r == read_summary_file(fs, path)
    IN  /\ r.st = "ok"
        /\ r.header = Bound(hdr)
        /\ Len(r.data) = Len(pts)
        /\ \A j \in 1..Len(pts) : SameRecord(r.data[j], pts[j])

\* C11: a header and records obtained from read_summary_file, written by
\* write_summary_file and read again by read_summary_file, come back as the
\* same header and as many records in the same order with the same verbatim
\* lines, file names and numeric fields.
C11_RoundTrip ==
    Written =>
        /\ ReadsBack(CleanName(filename), header, valid_points)
        /\ ReadsBack(OutlierName(filename), header, outliers)

\* C11's case: the records written came from a file with blanks around its
\* header and around a data line, one of them read from line 1.
C11_Witness ==
    /\ Written
    /\ entry = "process_file"
    /\ fs[PathStr(filename)][3].pad
    /\ Len(valid_points) = 2
    /\ valid_points[1].id = 1
    /\ fs[PathStr(filename)][valid_points[2].id + 1].pad
    /\ ReadsBack(CleanName(filename), header, valid_points)

\* A summary file of the records pts: the count of the records, a blank
\* line, the header hdr, and the verbatim line of each record in order.
ExpectedText(pts, hdr) ==
    <<CountLine(Len(pts)), BlankLine, [hdr EXCEPT !.eol = "LF"]>>
        \o [j \in 1..Len(pts) |-> [pts[j].line EXCEPT !.eol = "LF"]]

\* C12: the step of process_file that follows classification, with write_out
\* true, writes exactly two files, <first token of the base name>_clean.txt
\* and ..._outliers.txt in the directory of the input: the count of the valid
\* records (of the outliers), a blank line, the header, and the lines of the
\* valid records (of the outliers) in order; every other file is left as it
\* was, and with write_out false, and in every other step, no file is
\* created or modified.
C12_WritesExactlyTwoFiles ==
    [][/\ (pc = "write" /\ write_out) =>
            LET clean == filename.dir \o "/" \o filename.base[1] \o "_clean.txt"
                outl == filename.dir \o "/" \o filename.base[1] \o "_outliers.txt"
            IN  /\ clean # outl
                /\ DOMAIN fs' = DOMAIN fs \cup {clean, outl}
                /\ fs'[clean] = ExpectedText(valid_points, header)
                /\ fs'[outl] = ExpectedText(outliers, header)
                /\ \A p \in DOMAIN fs \ {clean, outl} : fs'[p] = fs[p]
       /\ (pc = "write" /\ ~write_out) => fs' = fs
       /\ pc # "write" => fs' = fs]_vars

\* C12's cases: both files are written, of one record or more each; or
\* process_file has classified with write_out false and no file is there.
C12_Witness ==
    \/ /\ Written
       /\ valid_points # <<>>
       /\ outliers # <<>>
       /\ fs[CleanName(filename)] = ExpectedText(valid_points, header)
       /\ fs[OutlierName(filename)] = ExpectedText(outliers, header)
    \/ /\ ~write_out
       /\ pc \in {"select", "load", "return"}
       /\ data # <<>>
       /\ CleanName(filename) \notin DOMAIN fs
       /\ OutlierName(filename) \notin DOMAIN fs

\* process_file is at work on a file of main's loop, or has failed on it.
InFile ==
    \/ pc \in {"read", "stats", "classify", "write", "select", "load", "return"}
    \/ pc = "failed" /\ err.at # "main"

\* The record p and the samples smp are those of the summary file at path:
\* p was built from a line of that file, smp read from p's sample file in
\* the directory of that file.
BelongsTo(p, smp, path) ==
    LET text == fs[PathStr(path)]
    IN  /\ p.id + 1 \in 1..Len(text)
        /\ p.line = Strip(text[p.id + 1])
        /\ p.fname = SampleFileName(Split(text[p.id + 1]))
        /\ read_datapoint_file(fs, path.dir \o "/" \o p.fname)
               = [st |-> "ok", samples |-> smp]

\* C13: main processes its files one after another in the order given: while
\* the i-th is processed, and when it fails, i - 1 pairs are collected, the
\* j-th of them that of the j-th file; the plots are reached only with one
\* pair per file; and after a failure nothing happens any more (no later
\* file is read, classified or written, no pair reaches the plots).
C13_BatchInOrderAbortsOnFailure ==
    /\ [](entry = "main" =>
            /\ Len(samples) = Len(points)
            /\ pc \in {"loop", "graph", "done"} => Len(points) = fi - 1
            /\ InFile => /\ fi \in 1..Len(summary_files)
                         /\ filename = summary_files[fi]
                         /\ Len(points) = fi - 1
            /\ pc \in {"graph", "done"} => Len(points) = Len(summary_files)
            /\ \A j \in 1..Len(points) :
                  BelongsTo(points[j], samples[j], summary_files[j]))
    /\ [][pc # "failed"]_vars

\* C13's cases: two different files are processed and their pairs collected;
\* the first of two files fails and the second, a good one, is left alone;
\* the second of two files fails after the first was collected.
C13_Witness ==
    /\ entry = "main"
    /\ Len(summary_files) = 2
    /\ \/ /\ pc = "done"
          /\ summary_files[1] # summary_files[2]
          /\ points[1] # points[2]
       \/ /\ pc = "failed" /\ err.at = "stats"
          /\ fi = 1
          /\ summary_files[2] = PathA
          /\ CleanName(PathA) \notin DOMAIN fs
       \/ /\ pc = "failed" /\ err.at = "load"
          /\ fi = 2
          /\ Len(points) = 1

\* A line of three tokens or more whose first three float() accepts.
WellFormedSample(line) ==
    /\ Len(line.toks) >= 3
    /\ \A j \in 1..3 : PyFloat(line.toks[j]).ok

\* One sample per well-formed line of text from the i-th on (i from 1).
RECURSIVE ExpectedSamples(_, _)
ExpectedSamples(text, i) ==
    IF i > Len(text) THEN <<>>
    ELSE IF i - 1 >= 4 /\ WellFormedSample(text[i])
         THEN <<[depth |-> PyFloat(text[i].toks[1]).val,
                 load |-> PyFloat(text[i].toks[2]).val,
                 time |-> PyFloat(text[i].toks[3]).val]>>
              \o ExpectedSamples(text, i + 1)
    ELSE ExpectedSamples(text, i + 1)

\* The path of the sample file process_file reads.
SamplePath == datadir \o "/" \o best.point.fname

\* C14: on a sample file that exists read_datapoint_file does not fail and
\* returns one sample per well-formed line at index 4 or more, in the order
\* of the file, with depth, load and time the tokens 0, 1 and 2; every other
\* line is skipped.
C14_SampleLinesSkippedOrRead ==
    (/\ pc = "return" \/ (pc = "failed" /\ err.at = "load")
     /\ SamplePath \in DOMAIN fs)
        => /\ pc = "return"
           /\ best_samples = ExpectedSamples(fs[SamplePath], 1)

\* C15: every record read_summary_file returns has a finite depth, a finite
\* stiffness and a finite hardness, so the statistics and the classification
\* see finite values only.
C15_RecordsAreFinite ==
    \A j \in 1..Len(data) :
        IsFin(data[j].depth) /\ IsFin(data[j].stiff) /\ IsFin(data[j].hard)

\* The paths process_file writes for the summary file at path.
OutputPaths(path) == {CleanName(path), OutlierName(path)}

\* C16: any two different files of a batch that main has processed were
\* written to different output paths, so the output of the earlier one is
\* not overwritten by the later one.
C16_OutputPathsDistinct ==
    entry = "main" =>
        \A j, k \in 1..Len(points) :
            summary_files[j] # summary_files[k]
                => OutputPaths(summary_files[j]) \cap OutputPaths(summary_files[k]) = {}

\* Both output files of the current file are on disk, as written from the
\* two lists.
OutputsOnDisk ==
    /\ OutputPaths(filename) \subseteq DOMAIN fs
    /\ fs[CleanName(filename)] = ExpectedText(valid_points, header)
    /\ fs[OutlierName(filename)] = ExpectedText(outliers, header)

\* C17: with write_out true, process_file writes its two files after the
\* classification and before it selects the representative and reads the
\* sample file: up to the classification a call of process_file has written
\* neither file, until the selection no representative is chosen and no
\* sample read, and when the selection or the reading of the sample file
\* fails both files are on disk.
C17_WrittenBeforeSelection ==
    write_out =>
        /\ (entry = "process_file"
              /\ (pc \in {"read", "stats", "classify", "write"}
                    \/ (pc = "failed" /\ err.at \in {"read", "stats", "classify"})))
              => OutputPaths(filename) \cap DOMAIN fs = {}
        /\ pc \in {"read", "stats", "classify", "write", "select"}
              => (best = NoBest /\ best_samples = <<>>)
        /\ (pc = "failed" /\ err.at \in {"select", "load"}) => OutputsOnDisk

\* C17's cases: the selection has failed on an empty valid list, or the
\* sample file of the representative is missing, and both files are on disk.
C17_Witness ==
    /\ write_out
    /\ pc = "failed"
    /\ \/ /\ err = [kind |-> "AttributeError", at |-> "select"]
          /\ valid_points = <<>>
          /\ outliers # <<>>
       \/ /\ err = [kind |-> "SystemExit", at |-> "load"]
          /\ SamplePath \notin DOMAIN fs
    /\ OutputsOnDisk

\* C18: on a file that exists and has fewer than three lines
\* read_summary_file returns no header and no records: it ends with an
\* exception nothing handles, also when line 1 is a well-formed data line.
C18_ShortFileFails ==
    (/\ pc # "read"
     /\ PathStr(filename) \in DOMAIN fs
     /\ Len(fs[PathStr(filename)]) < 3)
        => /\ pc = "failed"
           /\ err.at = "read"
           /\ err.kind \in {"UnboundLocalError", "IndexError"}
           /\ header = NoText
           /\ data = <<>>

\* C18's cases: read_summary_file has failed for its unbound header on a
\* file of two lines whose line 1 is a well-formed data line, or on a file
\* without lines.
C18_Witness ==
    /\ pc = "failed"
    /\ err = [kind |-> "UnboundLocalError", at |-> "read"]
    /\ PathStr(filename) \in DOMAIN fs
    /\ \/ /\ Len(fs[PathStr(filename)]) = 2
          /\ WellFormed(fs[PathStr(filename)][2])
       \/ fs[PathStr(filename)] = <<>>

====
